---- MODULE Spec2Model ----
(***************************************************************************)
(* TravelSafe backend: the safety score calculator (safety_scorer.py), the *)
(* user incident store and crime aggregation (incident_service.py) and the *)
(* crime data service (crime_service.py).                                  *)
(***************************************************************************)
EXTENDS Integers, Sequences, FiniteSets, TLC

VARIABLES
    call_image,     \* calculate_safety_score: the image_analysis argument
    call_weather,   \* calculate_safety_score: the weather_data argument
    call_crime,     \* calculate_safety_score: the crime_data argument
    score_pc,       \* "call" before calculate_safety_score runs, "done" after
    score_result,   \* the dict calculate_safety_score returned
    score_log,      \* the calls of calculate_safety_score so far, in order
    file,           \* incidents.json on disk
    now,            \* datetime.now(), in days
    pc,             \* per worker: where its report_incident call stands
    incidents,      \* per worker: the local list of report_incident
    ret,            \* per worker: how its last report_incident call ended
    before,         \* per worker: the records stored when its call began
    started,        \* number of report_incident calls begun
    acked,          \* the records of the calls that returned success, in order
    ever_stored,    \* every record the store has held
    committed,      \* the list of the last completed save_incidents
    read_obs,       \* what the last load_incidents of a query observed
    near_result,    \* the last get_incidents_near_location outcome
    crime_result,   \* the last get_crime_data call: query, time and result
    users_file,     \* users.json on disk
    signup_ret      \* the last signup_user call: arguments and outcome

score_vars ==
    <<call_image, call_weather, call_crime, score_pc, score_result, score_log>>

store_vars ==
    <<file, now, pc, incidents, ret, before, started, acked, ever_stored,
      committed, read_obs, near_result, crime_result>>

auth_vars == <<users_file, signup_ret>>

vars == <<score_vars, store_vars, auth_vars>>

(***************************************************************************)
(* Python float arithmetic.  The score is blended with the float literals  *)
(* 0.6, 0.4, 0.75 and 0.25, so every * and + of the blend is an IEEE-754   *)
(* binary64 operation rounded to nearest, ties to even.  A binary64 value  *)
(* is sgn * man * 2^exp with man a natural number below 2^53; naturals of  *)
(* that size are kept as little-endian sequences of 15-bit limbs.          *)
(***************************************************************************)
LimbBits == 15

LimbBase == 2^LimbBits

MantissaBits == 53

RECURSIVE BigFromNat(_)
BigFromNat(n) ==
    IF n = 0 THEN <<>> ELSE <<n % LimbBase>> \o BigFromNat(n \div LimbBase)

RECURSIVE BigToNat(_)
BigToNat(a) ==
    IF a = <<>> THEN 0 ELSE Head(a) + LimbBase * BigToNat(Tail(a))

RECURSIVE BigNorm(_)
BigNorm(a) ==
    IF a = <<>> THEN <<>>
    ELSE IF a[Len(a)] = 0 THEN BigNorm(SubSeq(a, 1, Len(a) - 1))
    ELSE a

RECURSIVE BigAddC(_, _, _)
BigAddC(a, b, c) ==
    IF a = <<>> /\ b = <<>> THEN (IF c = 0 THEN <<>> ELSE <<c>>)
    ELSE LET la == IF a = <<>> THEN 0 ELSE Head(a)
             lb == IF b = <<>> THEN 0 ELSE Head(b)
             s  == la + lb + c
         IN  <<s % LimbBase>> \o
             BigAddC(IF a = <<>> THEN <<>> ELSE Tail(a),
                     IF b = <<>> THEN <<>> ELSE Tail(b),
                     s \div LimbBase)

BigAdd(a, b) == BigAddC(a, b, 0)

\* a - b for a >= b, limb by limb with borrow
RECURSIVE BigSubB(_, _, _)
BigSubB(a, b, c) ==
    IF a = <<>> THEN <<>>
    ELSE LET lb == IF b = <<>> THEN 0 ELSE Head(b)
             d  == Head(a) - lb - c
         IN  <<IF d < 0 THEN d + LimbBase ELSE d>> \o
             BigSubB(Tail(a), IF b = <<>> THEN <<>> ELSE Tail(b),
                     IF d < 0 THEN 1 ELSE 0)

BigSub(a, b) == BigNorm(BigSubB(a, b, 0))

\* a < b on normalised naturals
RECURSIVE BigLess(_, _)
BigLess(a, b) ==
    IF Len(a) # Len(b) THEN Len(a) < Len(b)
    ELSE IF a = <<>> THEN FALSE
    ELSE IF a[Len(a)] # b[Len(b)] THEN a[Len(a)] < b[Len(b)]
    ELSE BigLess(SubSeq(a, 1, Len(a) - 1), SubSeq(b, 1, Len(b) - 1))

RECURSIVE BigMulSmallC(_, _, _)
BigMulSmallC(a, k, c) ==
    IF a = <<>> THEN (IF c = 0 THEN <<>> ELSE <<c>>)
    ELSE LET s == Head(a) * k + c
         IN  <<s % LimbBase>> \o BigMulSmallC(Tail(a), k, s \div LimbBase)

BigMulSmall(a, k) == IF k = 0 THEN <<>> ELSE BigMulSmallC(a, k, 0)

BigShiftLimb(a) == IF a = <<>> THEN <<>> ELSE <<0>> \o a

RECURSIVE BigMul(_, _)
BigMul(a, b) ==
    IF a = <<>> \/ b = <<>> THEN <<>>
    ELSE BigAdd(BigMulSmall(a, Head(b)), BigShiftLimb(BigMul(a, Tail(b))))

\* quotient and remainder of a by a divisor below LimbBase, most
\* significant limb first
RECURSIVE BigDivSmallR(_, _)
BigDivSmallR(a, d) ==
    IF a = <<>> THEN [q |-> <<>>, r |-> 0]
    ELSE LET hi  == BigDivSmallR(Tail(a), d)
             cur == hi.r * LimbBase + Head(a)
         IN  [q |-> <<cur \div d>> \o hi.q, r |-> cur % d]

BigDivSmall(a, d) ==
    LET qr == BigDivSmallR(a, d) IN [q |-> BigNorm(qr.q), r |-> qr.r]

RECURSIVE BitLenNat(_)
BitLenNat(n) == IF n = 0 THEN 0 ELSE 1 + BitLenNat(n \div 2)

BigBitLen(a) ==
    IF a = <<>> THEN 0 ELSE (Len(a) - 1) * LimbBits + BitLenNat(a[Len(a)])

RECURSIVE BigShlLimbs(_, _)
BigShlLimbs(a, k) == IF k = 0 THEN a ELSE BigShlLimbs(BigShiftLimb(a), k - 1)

\* a * 2^n
BigShl(a, n) ==
    BigShlLimbs(BigMulSmall(a, 2^(n % LimbBits)), n \div LimbBits)

\* floor(a / 2^n), with sticky = TRUE when a nonzero bit was shifted out
BigShr(a, n) ==
    LET k    == n \div LimbBits
        low  == IF k >= Len(a) THEN a ELSE SubSeq(a, 1, k)
        high == IF k >= Len(a) THEN <<>> ELSE SubSeq(a, k + 1, Len(a))
        d    == BigDivSmall(high, 2^(n % LimbBits))
    IN  [q |-> d.q, sticky |-> (d.r # 0) \/ (\E i \in 1..Len(low) : low[i] # 0)]

BigOdd(a) == a # <<>> /\ a[1] % 2 = 1

\* the same value with the zero low limbs of the mantissa moved into the
\* exponent
RECURSIVE DPack(_, _, _)
DPack(sgn, m, e) ==
    IF m # <<>> /\ Head(m) = 0 THEN DPack(sgn, Tail(m), e + LimbBits)
    ELSE [sgn |-> sgn, man |-> m, exp |-> e]

\* the binary64 nearest to sgn * m * 2^e, ties to even
DRound(sgn, m, e) ==
    LET len == BigBitLen(m)
    IN  IF len <= MantissaBits THEN DPack(sgn, m, e)
        ELSE LET sh    == len - MantissaBits
                 g     == BigShr(m, sh - 1)
                 guard == BigOdd(g.q)
                 q     == BigShr(g.q, 1).q
                 up    == guard /\ (g.sticky \/ BigOdd(q))
             IN  DPack(sgn, IF up THEN BigAdd(q, <<1>>) ELSE q, e + sh)

\* float(n) for an int n
DFromInt(n) ==
    [sgn |-> IF n < 0 THEN -1 ELSE 1,
     man |-> BigFromNat(IF n < 0 THEN -n ELSE n),
     exp |-> 0]

\* the float a decimal literal num/den denotes: the nearest binary64
DLit(num, den) ==
    LET d == BigDivSmall(BigShl(BigFromNat(num), 75), den)
    IN  DRound(1, BigAdd(BigMulSmall(d.q, 2), IF d.r # 0 THEN <<1>> ELSE <<>>),
               -76)

\* float * float
DMul(a, b) == DRound(a.sgn * b.sgn, BigMul(a.man, b.man), a.exp + b.exp)

\* float + float
DAdd(a, b) ==
    IF a.man = <<>> THEN b
    ELSE IF b.man = <<>> THEN a
    ELSE LET e  == IF a.exp < b.exp THEN a.exp ELSE b.exp
             am == BigShl(a.man, a.exp - e)
             bm == BigShl(b.man, b.exp - e)
         IN  IF a.sgn = b.sgn THEN DRound(a.sgn, BigAdd(am, bm), e)
             ELSE IF BigLess(am, bm) THEN DRound(b.sgn, BigSub(bm, am), e)
             ELSE DRound(a.sgn, BigSub(am, bm), e)

\* int(x): truncation toward zero
DInt(a) ==
    a.sgn * BigToNat(IF a.exp >= 0 THEN BigShl(a.man, a.exp)
                     ELSE BigShr(a.man, -a.exp).q)

F06 == DLit(6, 10)

F04 == DLit(4, 10)

F075 == DLit(75, 100)

F025 == DLit(25, 100)


(***************************************************************************)
(* Python dictionaries are functions; d.get(k, default) is Get.            *)
(***************************************************************************)
Get(d, k, default) == IF k \in DOMAIN d THEN d[k] ELSE default

EmptyDict == [k \in {} |-> FALSE]

Max(a, b) == IF a > b THEN a ELSE b

Min(a, b) == IF a < b THEN a ELSE b

(***************************************************************************)
(* safety_scorer.py                                                        *)
(***************************************************************************)
HazardKinds ==
    {"construction_roadwork", "water_flooding", "obstacles_debris",
     "poor_road_condition", "traffic_hazards"}

Severities == {"none", "low", "moderate", "high", "critical"}

Grades == {"good", "moderate", "poor"}

WeatherImpacts == {"negative", "neutral", "positive"}

Levels == {"very_safe", "safe", "moderate", "caution", "unsafe"}

\* the error of the analysis not looked at
has_image_analysis_any_error(image_analysis) ==
    /\ "indicators" \in DOMAIN image_analysis
    /\ DOMAIN image_analysis["indicators"] # {}

\* the image was analysed: a non-empty indicators dict and no error
has_image_analysis(image_analysis) ==
    /\ "indicators" \in DOMAIN image_analysis
    /\ DOMAIN image_analysis["indicators"] # {}
    /\ Get(image_analysis, "error", "") = ""

hazard_count(road_hazards) ==
    Cardinality({k \in HazardKinds : Get(road_hazards, k, FALSE)})

severity_penalty(indicators) ==
    LET hazard_severity == Get(indicators, "hazard_severity", "none")
        count == hazard_count(Get(indicators, "road_hazards", EmptyDict))
    IN  IF hazard_severity = "critical" THEN 40
        ELSE IF hazard_severity = "high" THEN 30
        ELSE IF hazard_severity = "moderate" THEN 20
        ELSE IF hazard_severity = "low" THEN 12
        ELSE IF count > 0 THEN count * 8
        ELSE 0

\* the penalty applied at every severity
travel_penalty_any_severity(indicators) ==
    IF ~Get(indicators, "travel_safe", TRUE) THEN 15 ELSE 0

travel_penalty(indicators) ==
    IF /\ ~Get(indicators, "travel_safe", TRUE)
       /\ Get(indicators, "hazard_severity", "none") \in {"none", "low"}
    THEN 15 ELSE 0

lighting_adjust(indicators) ==
    LET lighting == Get(indicators, "lighting", "moderate")
    IN  IF lighting = "good" THEN 10
        ELSE IF lighting = "moderate" THEN 3
        ELSE -3

people_adjust(indicators) ==
    IF Get(indicators, "people_present", FALSE) THEN 5 ELSE 0

cleanliness_adjust(indicators) ==
    LET cleanliness == Get(indicators, "cleanliness", "moderate")
    IN  IF cleanliness = "good" THEN 5
        ELSE IF cleanliness = "moderate" THEN 2
        ELSE -2

img_score(indicators) ==
    Max(5, Min(100, 50 - severity_penalty(indicators)
                       - travel_penalty(indicators)
                       + lighting_adjust(indicators)
                       + people_adjust(indicators)
                       + cleanliness_adjust(indicators)))

\* negative weather weighing 10 in place of 30
weather_score_harsh(weather_data) ==
    LET weather_impact == Get(weather_data, "safety_impact", "neutral")
    IN  IF weather_impact = "negative" THEN 10
        ELSE IF weather_impact = "positive" THEN 70
        ELSE 50

weather_score(weather_data) ==
    LET weather_impact == Get(weather_data, "safety_impact", "neutral")
    IN  IF weather_impact = "negative" THEN 30
        ELSE IF weather_impact = "positive" THEN 70
        ELSE 50

\* the crime factor in two bands, 70 below a crime rate of 50 and 30 from it
crime_score_banded(crime_data) ==
    IF Get(crime_data, "crime_rate", 50) < 50 THEN 70 ELSE 30

\* the crime rate taken as the factor
crime_score_rate(crime_data) == Get(crime_data, "crime_rate", 50)

crime_score(crime_data) == 100 - Get(crime_data, "crime_rate", 50)

\* score = (score * 0.6) + (img_score * 0.4), skipped without an image
image_blend(image_analysis) ==
    IF has_image_analysis(image_analysis)
    THEN DAdd(DMul(DFromInt(50), F06),
              DMul(DFromInt(img_score(image_analysis["indicators"])), F04))
    ELSE DFromInt(50)

\* score = (score * 0.75) + (weather_score * 0.25)
weather_blend(score, weather_data) ==
    DAdd(DMul(score, F075), DMul(DFromInt(weather_score(weather_data)), F025))

\* score = (score * 0.6) + (crime_score * 0.4)
crime_blend(score, crime_data) ==
    DAdd(DMul(score, F06), DMul(DFromInt(crime_score(crime_data)), F04))

\* the lower clamp left out
final_score_no_floor(score) == Min(100, DInt(score))

final_score(score) == Max(1, Min(100, DInt(score)))

safety_level(score) ==
    IF score >= 80 THEN "very_safe"
    ELSE IF score >= 60 THEN "safe"
    ELSE IF score >= 40 THEN "moderate"
    ELSE IF score >= 20 THEN "caution"
    ELSE "unsafe"

\* the alert raised for unsafe only
safety_alert_unsafe_only(score) == score < 20

safety_alert(score) ==
    IF score >= 80 THEN FALSE
    ELSE IF score >= 60 THEN FALSE
    ELSE IF score >= 40 THEN FALSE
    ELSE TRUE

\* the score kept between calls: a call never returns less than the last
calculate_safety_score_remembered(image_analysis, weather_data, crime_data) ==
    LET score == crime_blend(weather_blend(image_blend(image_analysis),
                                           weather_data), crime_data)
        final == Max(final_score(score), score_result.safety_score)
    IN  [safety_score |-> final,
         safety_level |-> safety_level(final),
         alert        |-> safety_alert(final),
         breakdown    |->
             [image_analysis |->
                  IF has_image_analysis(image_analysis)
                  THEN <<img_score(image_analysis["indicators"])>>
                  ELSE <<>>,
              weather    |-> weather_score(weather_data),
              crime_data |-> crime_score(crime_data)]]

calculate_safety_score(image_analysis, weather_data, crime_data) ==
    LET score == crime_blend(weather_blend(image_blend(image_analysis),
                                           weather_data), crime_data)
        final == final_score(score)
    IN  [safety_score |-> final,
         safety_level |-> safety_level(final),
         alert        |-> safety_alert(final),
         breakdown    |->
             [image_analysis |->
                  IF has_image_analysis(image_analysis)
                  THEN <<img_score(image_analysis["indicators"])>>
                  ELSE <<>>,
              weather    |-> weather_score(weather_data),
              crime_data |-> crime_score(crime_data)]]


(***************************************************************************)
(* Inputs of calculate_safety_score.  main.py passes {"indicators": {}}    *)
(* when no file was uploaded; the vision collaborator returns either a     *)
(* full indicators dict or an error with empty indicators.                 *)
(***************************************************************************)
NoHazards == [k \in HazardKinds |-> FALSE]

\* road_hazards dicts of the score runs
ScoreRoadHazards == {NoHazards}

Indicators(hazards) ==
    [road_hazards : hazards, hazard_severity : Severities,
     travel_safe : BOOLEAN, lighting : Grades, people_present : BOOLEAN,
     cleanliness : Grades]

NoImage == [indicators |-> EmptyDict]

FailedImage == [indicators |-> EmptyDict, error |-> "analysis failed"]

\* analyze_image_safety when the model's answer is not JSON: placeholder
\* indicators and an error
UnparsedImage ==
    [indicators |-> [lighting        |-> "moderate",
                     people_present  |-> TRUE,
                     cleanliness     |-> "good",
                     road_hazards    |-> EmptyDict,
                     hazard_severity |-> "none",
                     travel_safe     |-> TRUE],
     error      |-> "Failed to parse JSON response"]

Images(hazards) ==
    {NoImage, FailedImage, UnparsedImage}
        \cup {[indicators |-> i] : i \in Indicators(hazards)}

\* crime_rate values handed to the scorer: the documented range 0..100 and
\* values CrimeExcess and 2 * CrimeExcess beyond either end
CrimeExcess == 75

CrimeRates ==
    (0..100) \cup {-2 * CrimeExcess, -CrimeExcess,
                   100 + CrimeExcess, 100 + 2 * CrimeExcess}

NoResult == [safety_score |-> 0]

(***************************************************************************)
(* incident_service.py: the incident file.  The file is missing, empty     *)
(* (just opened with 'w'), holds the JSON text of a list, or holds text    *)
(* that json.load rejects.                                                 *)
(***************************************************************************)
FileMissing == [kind |-> "missing", data |-> <<>>]

FileEmpty == [kind |-> "empty", data |-> <<>>]

FileGarbage == [kind |-> "garbage", data |-> <<>>]

FileJson(list) == [kind |-> "json", data |-> list]

\* os.path.exists, then json.load inside try/except: the list, or [] when
\* the file is missing or does not parse
load_incidents(f) == IF f.kind = "json" THEN f.data ELSE <<>>

\* open(INCIDENTS_FILE, 'w') truncates the file
open_for_write(f) == FileEmpty

\* json.dump and close write the text at offset 0 of what the file holds
\* now.  Over an empty file the result is the list.  Over text another
\* writer put there since the open, a longer old text leaves its tail behind
\* the new one, a shorter one is covered, and texts of as many records
\* either way.
dump_outcomes(f, list) ==
    IF f.kind = "empty" \/ f.kind = "missing" THEN {FileJson(list)}
    ELSE IF f.kind = "json" /\ f.data = list THEN {FileJson(list)}
    ELSE IF f.kind = "json" /\ Len(f.data) < Len(list) THEN {FileJson(list)}
    ELSE IF f.kind = "json" /\ Len(f.data) > Len(list) THEN {FileGarbage}
    ELSE {FileJson(list), FileGarbage}

\* datetime.isoformat and datetime.fromisoformat
isoformat(t) == <<"iso", t>>

fromisoformat(text) == text[2]

new_incident(loaded, latitude, longitude, incident_type, description, t) ==
    [id            |-> Len(loaded) + 1,
     latitude      |-> latitude,
     longitude     |-> longitude,
     incident_type |-> incident_type,
     description   |-> description,
     reported_at   |-> isoformat(t),
     verified      |-> FALSE]

(***************************************************************************)
(* geopy.distance.geodesic on whole degrees: a Point with a latitude       *)
(* outside [-90, 90] raises ValueError; the distance is taken along the    *)
(* meridian for equal longitudes and with the flat metric otherwise.       *)
(***************************************************************************)
KmPerDegree == 111

Abs(n) == IF n < 0 THEN -n ELSE n

valid_point(latitude) == Abs(latitude) <= 90

\* distance > radius_km in place of distance <= radius_km
within_radius_outside(lat1, lon1, lat2, lon2, radius_km) ==
    /\ radius_km >= 0
    /\ KmPerDegree * KmPerDegree *
           ((lat1 - lat2) * (lat1 - lat2) + (lon1 - lon2) * (lon1 - lon2))
       > radius_km * radius_km

\* distance <= radius_km, on squared kilometres
within_radius(lat1, lon1, lat2, lon2, radius_km) ==
    /\ radius_km >= 0
    /\ KmPerDegree * KmPerDegree *
           ((lat1 - lat2) * (lat1 - lat2) + (lon1 - lon2) * (lon1 - lon2))
       <= radius_km * radius_km

\* round(distance, 2) of the copies; whole kilometres along a meridian
distance_km(lat1, lon1, lat2, lon2) ==
    IF lon1 = lon2 THEN KmPerDegree * Abs(lat1 - lat2)
    ELSE KmPerDegree * (Abs(lat1 - lat2) + Abs(lon1 - lon2))

RECURSIVE nearby_incidents(_, _, _, _)
nearby_incidents(list, latitude, longitude, radius_km) ==
    IF list = <<>> THEN <<>>
    ELSE LET incident == Head(list)
             rest == nearby_incidents(Tail(list), latitude, longitude, radius_km)
         IN  IF within_radius(latitude, longitude, incident.latitude,
                              incident.longitude, radius_km)
             THEN <<[k \in DOMAIN incident \cup {"distance_km"} |->
                        IF k = "distance_km"
                        THEN distance_km(latitude, longitude,
                                         incident.latitude, incident.longitude)
                        ELSE incident[k]]>>
                  \o rest
             ELSE rest

\* incident["latitude"], incident["longitude"]: KeyError without the key
has_location(incident) ==
    "latitude" \in DOMAIN incident /\ "longitude" \in DOMAIN incident

\* get_incidents_near_location on a loaded list: the loop raises at the
\* first record that lacks a coordinate, and geodesic raises on the first
\* record when the query point or a record has no valid latitude
get_incidents_near_location(list, latitude, longitude, radius_km) ==
    IF /\ list # <<>>
       /\ \/ ~valid_point(latitude)
          \/ \E i \in 1..Len(list) :
                 \/ ~has_location(list[i])
                 \/ ~valid_point(list[i].latitude)
    THEN [raised |-> TRUE, value |-> <<>>]
    ELSE [raised |-> FALSE,
          value  |-> nearby_incidents(list, latitude, longitude, radius_km)]

ThirtyDays == 30

RECURSIVE recent_count(_, _)
recent_count(list, t) ==
    IF list = <<>> THEN 0
    ELSE (IF fromisoformat(Head(list).reported_at) > t - ThirtyDays THEN 1 ELSE 0)
         + recent_count(Tail(list), t)

\* the thresholds compared with <= in place of <
crime_safety_level_inclusive(crime_rate) ==
    IF crime_rate <= 30 THEN "very_safe"
    ELSE IF crime_rate <= 50 THEN "safe"
    ELSE IF crime_rate <= 70 THEN "moderate"
    ELSE IF crime_rate <= 85 THEN "caution"
    ELSE "unsafe"

crime_safety_level(crime_rate) ==
    IF crime_rate < 30 THEN "very_safe"
    ELSE IF crime_rate < 50 THEN "safe"
    ELSE IF crime_rate < 70 THEN "moderate"
    ELSE IF crime_rate < 85 THEN "caution"
    ELSE "unsafe"

\* the two weights swapped
capped_crime_rate_swapped(incident_count, recent) ==
    Min(100, 10 + incident_count * 10 + recent * 15)

\* the cap left out
capped_crime_rate_no_cap(incident_count, recent) ==
    10 + incident_count * 15 + recent * 10

\* the recent bonus taken off
capped_crime_rate_recent_off(incident_count, recent) ==
    Min(100, 10 + incident_count * 15 - recent * 10)

capped_crime_rate(incident_count, recent) ==
    Min(100, 10 + incident_count * 15 + recent * 10)

\* calculate_crime_score_from_incidents on the list a load returned
calculate_crime_score_from_incidents(list, latitude, longitude, radius_km, t) ==
    LET near == get_incidents_near_location(list, latitude, longitude, radius_km)
        incident_count == Len(near.value)
        recent == recent_count(near.value, t)
        rate == capped_crime_rate(incident_count, recent)
    IN  IF near.raised THEN [raised |-> TRUE, value |-> EmptyDict]
        ELSE IF \E i \in 1..Len(near.value) :
                    "reported_at" \notin DOMAIN near.value[i]
        THEN [raised |-> TRUE, value |-> EmptyDict]
        ELSE IF near.value = <<>>
        THEN [raised |-> FALSE,
              value  |-> [crime_rate       |-> 10,
                          safety_level     |-> "very_safe",
                          recent_incidents |-> 0,
                          total_incidents  |-> 0,
                          incident_types   |-> {},
                          data_source      |-> "user_reports"]]
        ELSE IF \E i \in 1..Len(near.value) :
                    "incident_type" \notin DOMAIN near.value[i]
        THEN [raised |-> TRUE, value |-> EmptyDict]
        ELSE [raised |-> FALSE,
              value  |-> [crime_rate       |-> rate,
                          safety_level     |-> crime_safety_level(rate),
                          recent_incidents |-> recent,
                          total_incidents  |-> incident_count,
                          incident_types   |->
                              {near.value[i].incident_type :
                                   i \in 1..Len(near.value)},
                          incidents        |->
                              SubSeq(near.value, 1, Min(5, Len(near.value))),
                          data_source      |-> "user_reports"]]

\* crime_service.get_crime_data: the aggregate, or the fallback on any
\* exception
get_crime_data(list, latitude, longitude, radius_km, t) ==
    LET computed == calculate_crime_score_from_incidents(
                        list, latitude, longitude, radius_km, t)
    IN  IF computed.raised
        THEN [crime_rate       |-> 20,
              safety_level     |-> "safe",
              recent_incidents |-> 0,
              error            |-> "str(e)",
              data_source      |-> "user_reports"]
        ELSE computed.value

(***************************************************************************)
(* auth_service.py: signup.  A str is the sequence of its characters.      *)
(***************************************************************************)
\* str.replace(old, ""), old one character
replace(text, old) == SelectSeq(text, LAMBDA ch : ch # old)

startswith(text, prefix) ==
    Len(text) >= Len(prefix) /\ SubSeq(text, 1, Len(prefix)) = prefix

\* text[n:]
slice_from(text, n) == SubSeq(text, n + 1, Len(text))

RECURSIVE lstrip(_)
lstrip(text) ==
    IF text # <<>> /\ Head(text) = " " THEN lstrip(Tail(text)) ELSE text

RECURSIVE rstrip(_)
rstrip(text) ==
    IF text # <<>> /\ text[Len(text)] = " "
    THEN rstrip(SubSeq(text, 1, Len(text) - 1))
    ELSE text

strip(text) == rstrip(lstrip(text))

validate_phone_number(phone_number) ==
    LET phone == replace(replace(phone_number, " "), "-")
        rest == IF startswith(phone, <<"+", "2", "1", "6">>)
                THEN slice_from(phone, 4)
                ELSE IF startswith(phone, <<"0", "0", "2", "1", "6">>)
                THEN slice_from(phone, 5)
                ELSE IF startswith(phone, <<"2", "1", "6">>)
                THEN slice_from(phone, 3)
                ELSE phone
    IN  Len(rest) = 8 /\ rest[1] \in {"2", "5", "9", "7"}

normalize_phone_number(phone_number) ==
    LET phone == replace(replace(phone_number, " "), "-")
    IN  IF startswith(phone, <<"+", "2", "1", "6">>) THEN phone
        ELSE IF startswith(phone, <<"0", "0", "2", "1", "6">>)
        THEN <<"+">> \o slice_from(phone, 2)
        ELSE IF startswith(phone, <<"2", "1", "6">>) THEN <<"+">> \o phone
        ELSE IF startswith(phone, <<"0">>)
        THEN <<"+", "2", "1", "6">> \o slice_from(phone, 1)
        ELSE <<"+", "2", "1", "6">> \o phone

\* load_users: as load_incidents, the list or [] when the file is missing
\* or does not parse
load_users(f) == IF f.kind = "json" THEN f.data ELSE <<>>

\* the salt bcrypt.gensalt draws
Salts == {"salt"}

get_password_hash(password, salt) == <<"bcrypt", salt, password>>

ACCESS_TOKEN_EXPIRE_MINUTES == 43200

\* the claims of the token, exp in days like the clock
create_access_token(data, t) ==
    [sub     |-> data.sub,
     user_id |-> data.user_id,
     exp     |-> t + ACCESS_TOKEN_EXPIRE_MINUTES \div (24 * 60)]

\* the check of the last stored user only
already_registered_last(users, normalized_phone) ==
    /\ users # <<>>
    /\ Get(users[Len(users)], "phone_number", <<>>) = normalized_phone

\* for user in users: if user.get("phone_number") == normalized_phone
already_registered(users, normalized_phone) ==
    \E i \in 1..Len(users) :
        Get(users[i], "phone_number", <<>>) = normalized_phone

Rejected(users, error) ==
    [saved  |-> FALSE,
     users  |-> users,
     result |-> [success |-> FALSE, error |-> error]]

\* signup_user up to save_users: the list to save, if any, and the dict to
\* return
signup_user(stored, phone_number, full_name, password, salt, t) ==
    IF phone_number = <<>> \/ full_name = <<>> \/ password = <<>>
    THEN Rejected(stored, "All fields are required")
    ELSE IF ~validate_phone_number(phone_number)
    THEN Rejected(stored, "Invalid phone number format")
    ELSE IF Len(password) < 6
    THEN Rejected(stored, "Password must be at least 6 characters long")
    ELSE IF Len(strip(full_name)) < 2
    THEN Rejected(stored, "Full name must be at least 2 characters long")
    ELSE
        LET normalized_phone == normalize_phone_number(phone_number)
            users == load_users(stored)
            new_user == [id            |-> Len(users) + 1,
                         phone_number  |-> normalized_phone,
                         full_name     |-> strip(full_name),
                         password_hash |-> get_password_hash(password, salt),
                         created_at    |-> isoformat(t),
                         is_active     |-> TRUE]
        IN  IF already_registered(users, normalized_phone)
            THEN Rejected(stored, "Phone number already registered")
            ELSE [saved  |-> TRUE,
                  users  |-> Append(users, new_user),
                  result |->
                      [success      |-> TRUE,
                       message      |-> "User registered successfully",
                       user         |-> [id           |-> new_user.id,
                                         phone_number |-> normalized_phone,
                                         full_name    |-> new_user.full_name],
                       access_token |->
                           create_access_token(
                               [sub     |-> normalized_phone,
                                user_id |-> new_user.id], t),
                       token_type   |-> "bearer"]]

NoSignup == [status |-> "none"]

AuthInit ==
    /\ users_file = FileMissing
    /\ signup_ret = NoSignup

(***************************************************************************)
(* Inputs and bounds of the incident store runs.  Latitudes are whole      *)
(* degrees: 0 and 2 are 222 km apart and 91 is not a latitude.             *)
(***************************************************************************)
Latitudes == {0, 2, 91}

Longitudes == {0}

IncidentTypes == {"theft"}

Descriptions == {""}

Radii == {-1, 1, 222}

NumProcs == 2

Procs == 1..NumProcs

\* the worker that serves the requests when they are served one at a time
FirstProc == CHOOSE p \in Procs : \A q \in Procs : p <= q

MaxReports == 2

MaxSeqReports == 3

MaxIncidents == 4

TickDays == 15

MaxNow == 45

Range(list) == {list[i] : i \in 1..Len(list)}

NoReturn == [status |-> "none", incident_id |-> 0]

NoQuery == [status |-> "none"]

StoreInit ==
    /\ file = FileMissing
    /\ now = 0
    /\ pc = [p \in Procs |-> "idle"]
    /\ incidents = [p \in Procs |-> <<>>]
    /\ ret = [p \in Procs |-> NoReturn]
    /\ before = [p \in Procs |-> {}]
    /\ started = 0
    /\ acked = <<>>
    /\ ever_stored = {}
    /\ committed = <<>>
    /\ read_obs = NoQuery
    /\ near_result = NoQuery
    /\ crime_result = NoQuery

ScoreIdle ==
    /\ call_image = NoImage
    /\ call_weather = [safety_impact |-> "neutral"]
    /\ call_crime = [crime_rate |-> 50]
    /\ score_pc = "idle"
    /\ score_result = NoResult
    /\ score_log = <<>>

AllIdle == \A p \in Procs : pc[p] = "idle"

\* the response of the last query has been sent
NoResponsePending ==
    near_result.status = "none" /\ crime_result.status = "none"

(***************************************************************************)
(* report_incident, step by step: load_incidents and the local append,     *)
(* the open of save_incidents, and its json.dump and close.                *)
(***************************************************************************)
RI_Load(p, latitude, longitude, incident_type, description) ==
    /\ NoResponsePending
    /\ pc[p] = "idle"
    /\ LET loaded == load_incidents(file)
       IN  /\ incidents' = [incidents EXCEPT ![p] =
                  Append(loaded, new_incident(loaded, latitude, longitude,
                                              incident_type, description, now))]
           /\ before' = [before EXCEPT ![p] = Range(loaded)]
    /\ pc' = [pc EXCEPT ![p] = "save"]
    /\ ret' = [ret EXCEPT ![p] = NoReturn]
    /\ started' = started + 1
    /\ UNCHANGED <<file, now, acked, ever_stored, committed, read_obs,
                   near_result, crime_result>>

RI_Open(p) ==
    /\ NoResponsePending
    /\ pc[p] = "save"
    /\ file' = open_for_write(file)
    /\ pc' = [pc EXCEPT ![p] = "dump"]
    /\ UNCHANGED <<now, incidents, ret, before, started, acked, ever_stored,
                   committed, read_obs, near_result, crime_result>>

\* open raises: the medium cannot be written, the file is as it was
RI_OpenFails(p) ==
    /\ NoResponsePending
    /\ pc[p] = "save"
    /\ pc' = [pc EXCEPT ![p] = "idle"]
    /\ incidents' = [incidents EXCEPT ![p] = <<>>]
    /\ ret' = [ret EXCEPT ![p] = [status |-> "failed", incident_id |-> 0]]
    /\ UNCHANGED <<file, now, before, started, acked, ever_stored, committed,
                   read_obs, near_result, crime_result>>

RI_Dump(p) ==
    /\ NoResponsePending
    /\ pc[p] = "dump"
    /\ \E written \in dump_outcomes(file, incidents[p]) :
           /\ file' = written
           /\ committed' =
                  IF written.kind = "json" THEN incidents[p] ELSE committed
           /\ ever_stored' = ever_stored \cup Range(written.data)
    /\ acked' = Append(acked, incidents[p][Len(incidents[p])])
    /\ ret' = [ret EXCEPT ![p] =
                  [status      |-> "success",
                   incident_id |-> incidents[p][Len(incidents[p])].id]]
    /\ pc' = [pc EXCEPT ![p] = "idle"]
    /\ incidents' = [incidents EXCEPT ![p] = <<>>]
    /\ UNCHANGED <<now, before, started, read_obs, near_result, crime_result>>

\* the write raises part way: the file keeps a prefix of the text
RI_DumpFails(p) ==
    /\ NoResponsePending
    /\ pc[p] = "dump"
    /\ file' = FileGarbage
    /\ ret' = [ret EXCEPT ![p] = [status |-> "failed", incident_id |-> 0]]
    /\ pc' = [pc EXCEPT ![p] = "idle"]
    /\ incidents' = [incidents EXCEPT ![p] = <<>>]
    /\ UNCHANGED <<now, before, started, acked, ever_stored, committed,
                   read_obs, near_result, crime_result>>

\* report_incident run from its first line to its return with no other
\* request in between and a medium that works
ReportIncident(p, latitude, longitude, incident_type, description) ==
    /\ NoResponsePending
    /\ AllIdle
    /\ Len(load_incidents(file)) < MaxIncidents
    /\ LET loaded == load_incidents(file)
           record == new_incident(loaded, latitude, longitude, incident_type,
                                  description, now)
           list   == Append(loaded, record)
       IN  /\ file' \in dump_outcomes(open_for_write(file), list)
           /\ before' = [before EXCEPT ![p] = Range(loaded)]
           /\ committed' = list
           /\ ever_stored' = ever_stored \cup Range(list)
           /\ acked' = Append(acked, record)
           /\ ret' = [ret EXCEPT ![p] =
                         [status |-> "success", incident_id |-> record.id]]
    /\ started' = started + 1
    /\ UNCHANGED <<now, pc, incidents, read_obs, near_result, crime_result>>

Tick ==
    /\ NoResponsePending
    /\ now + TickDays <= MaxNow
    /\ now' = now + TickDays
    /\ UNCHANGED <<file, pc, incidents, ret, before, started, acked,
                   ever_stored, committed, read_obs, near_result, crime_result>>

\* what a load_incidents saw, and the lists it could have seen had it run
\* before or after the report_incident calls in flight
Observation ==
    [status  |-> "read",
     seen    |-> load_incidents(file),
     allowed |-> {committed} \cup {incidents[p] : p \in {q \in Procs : pc[q] # "idle"}}]

\* the nearby query writing its distance_km annotations back to the store
GetIncidentsNearLocation_in_place(latitude, longitude, radius_km) ==
    /\ NoResponsePending
    /\ near_result' =
           [status    |-> "returned",
            latitude  |-> latitude,
            longitude |-> longitude,
            radius_km |-> radius_km,
            result    |-> get_incidents_near_location(
                              load_incidents(file), latitude, longitude,
                              radius_km)]
    /\ file' = IF near_result'.result.raised \/ near_result'.result.value = <<>>
               THEN file
               ELSE FileJson(near_result'.result.value)
    /\ read_obs' = Observation
    /\ UNCHANGED <<now, pc, incidents, ret, before, started, acked,
                   ever_stored, committed, crime_result>>

GetIncidentsNearLocation(latitude, longitude, radius_km) ==
    /\ NoResponsePending
    /\ near_result' =
           [status    |-> "returned",
            latitude  |-> latitude,
            longitude |-> longitude,
            radius_km |-> radius_km,
            result    |-> get_incidents_near_location(
                              load_incidents(file), latitude, longitude,
                              radius_km)]
    /\ read_obs' = Observation
    /\ UNCHANGED <<file, now, pc, incidents, ret, before, started, acked,
                   ever_stored, committed, crime_result>>

GetCrimeData(latitude, longitude, radius_km) ==
    /\ NoResponsePending
    /\ crime_result' =
           [status    |-> "returned",
            latitude  |-> latitude,
            longitude |-> longitude,
            radius_km |-> radius_km,
            at        |-> now,
            store     |-> file,
            result    |-> get_crime_data(load_incidents(file), latitude,
                                         longitude, radius_km, now)]
    /\ read_obs' = Observation
    /\ UNCHANGED <<file, now, pc, incidents, ret, before, started, acked,
                   ever_stored, committed, near_result>>

\* the response of the query is sent
Respond ==
    /\ ~NoResponsePending
    /\ near_result' = NoQuery
    /\ crime_result' = NoQuery
    /\ read_obs' = NoQuery
    /\ UNCHANGED <<file, now, pc, incidents, ret, before, started, acked,
                   ever_stored, committed>>

Queries ==
    \E latitude \in Latitudes, longitude \in Longitudes, radius_km \in Radii :
        \/ GetIncidentsNearLocation(latitude, longitude, radius_km)
        \/ GetCrimeData(latitude, longitude, radius_km)

Reports(p) ==
    \E latitude \in Latitudes, longitude \in Longitudes,
       incident_type \in IncidentTypes, description \in Descriptions :
        RI_Load(p, latitude, longitude, incident_type, description)

(***************************************************************************)
(* The score calculator on every input.                                    *)
(***************************************************************************)
ScoreInit ==
    /\ call_image \in Images(ScoreRoadHazards)
    /\ call_weather \in [safety_impact : WeatherImpacts]
    /\ call_crime \in [crime_rate : CrimeRates]
    /\ score_pc = "call"
    /\ score_result = NoResult
    /\ score_log = <<>>
    /\ StoreInit
    /\ AuthInit

CalculateSafetyScore ==
    /\ score_pc = "call"
    /\ score_pc' = "done"
    /\ score_result' = calculate_safety_score(call_image, call_weather, call_crime)
    /\ score_log' = Append(score_log, [image_analysis |-> call_image,
                                       weather_data   |-> call_weather,
                                       crime_data     |-> call_crime,
                                       result         |-> score_result'])
    /\ UNCHANGED <<call_image, call_weather, call_crime>>
    /\ UNCHANGED <<store_vars, auth_vars>>

ScoreNext == CalculateSafetyScore

SpecScore == ScoreInit /\ [][ScoreNext]_vars

(***************************************************************************)
(* The aggregate over the stores that requests served one at a time on a   *)
(* working medium build up.                                                *)
(***************************************************************************)
CrimeInit == ScoreIdle /\ StoreInit /\ AuthInit

CrimeNext ==
    /\ UNCHANGED <<score_vars, auth_vars>>
    /\ \/ \E latitude \in Latitudes, longitude \in Longitudes,
             incident_type \in IncidentTypes, description \in Descriptions :
              ReportIncident(FirstProc, latitude, longitude, incident_type,
                             description)
       \/ Tick
       \/ Queries
       \/ Respond

SpecCrime == CrimeInit /\ [][CrimeNext]_vars

(***************************************************************************)
(* Requests served one at a time on a medium whose writes can fail.        *)
(***************************************************************************)
SeqNext ==
    /\ UNCHANGED <<score_vars, auth_vars>>
    /\ \/ AllIdle /\ started < MaxSeqReports /\ Reports(FirstProc)
       \/ RI_Open(FirstProc)
       \/ RI_OpenFails(FirstProc)
       \/ RI_Dump(FirstProc)
       \/ RI_DumpFails(FirstProc)
       \/ Tick
       \/ AllIdle /\ Queries
       \/ Respond

SpecSeq == CrimeInit /\ [][SeqNext]_vars

(***************************************************************************)
(* Requests served by concurrent workers on a working medium.              *)
(***************************************************************************)
StoreNext ==
    /\ UNCHANGED <<score_vars, auth_vars>>
    /\ \/ \E p \in Procs : started < MaxReports /\ Reports(p)
       \/ \E p \in Procs : RI_Open(p)
       \/ \E p \in Procs : RI_Dump(p)
       \/ Tick
       \/ Queries
       \/ Respond

SpecStore == CrimeInit /\ [][StoreNext]_vars

(***************************************************************************)
(* The image factor on every result the vision collaborator can return,    *)
(* with every combination of road hazard flags, and without an image.      *)
(***************************************************************************)
AllRoadHazards == [HazardKinds -> BOOLEAN]

ImageInit ==
    /\ call_image \in Images(AllRoadHazards)
    /\ call_weather = [safety_impact |-> "neutral"]
    /\ call_crime = [crime_rate |-> 35]
    /\ score_pc = "call"
    /\ score_result = NoResult
    /\ score_log = <<>>
    /\ StoreInit
    /\ AuthInit

SpecImage == ImageInit /\ [][ScoreNext]_vars

(***************************************************************************)
(* The fusion over the documented domains: every crime_rate of 0..100,     *)
(* every weather impact and, the image entering the blend through          *)
(* img_score only, one indicators record for every value img_score takes,  *)
(* next to the results without a scored image.                             *)
(***************************************************************************)
ImageScores == {img_score(i) : i \in Indicators(AllRoadHazards)}

FusedImages ==
    {NoImage, FailedImage, UnparsedImage}
        \cup {[indicators |->
                  CHOOSE i \in Indicators(AllRoadHazards) : img_score(i) = v] :
              v \in ImageScores}

DomainCrimeRates == 0..100

FusedInit ==
    /\ call_image \in FusedImages
    /\ call_weather \in [safety_impact : WeatherImpacts]
    /\ call_crime \in [crime_rate : DomainCrimeRates]
    /\ score_pc = "call"
    /\ score_result = NoResult
    /\ score_log = <<>>
    /\ StoreInit
    /\ AuthInit

SpecFused == FusedInit /\ [][ScoreNext]_vars

(***************************************************************************)
(* The score calculator called again and again, the way the request layer  *)
(* calls it for one request after the other.                               *)
(***************************************************************************)
MaxCalls == 3

RepeatImages ==
    {NoImage,
     [indicators |-> [road_hazards    |-> NoHazards,
                      hazard_severity |-> "critical",
                      travel_safe     |-> FALSE,
                      lighting        |-> "poor",
                      people_present  |-> FALSE,
                      cleanliness     |-> "poor"]]}

RepeatCrimeRates == {35, 100}

RepeatInit ==
    /\ call_image \in RepeatImages
    /\ call_weather \in [safety_impact : WeatherImpacts]
    /\ call_crime \in [crime_rate : RepeatCrimeRates]
    /\ score_pc = "call"
    /\ score_result = NoResult
    /\ score_log = <<>>
    /\ StoreInit
    /\ AuthInit

\* the next request arrives with its own inputs
NextCall ==
    /\ score_pc = "done"
    /\ Len(score_log) < MaxCalls
    /\ call_image' \in RepeatImages
    /\ call_weather' \in [safety_impact : WeatherImpacts]
    /\ call_crime' \in [crime_rate : RepeatCrimeRates]
    /\ score_pc' = "call"
    /\ UNCHANGED <<score_result, score_log>>
    /\ UNCHANGED <<store_vars, auth_vars>>

RepeatNext == CalculateSafetyScore \/ NextCall

SpecRepeat == RepeatInit /\ [][RepeatNext]_vars

(***************************************************************************)
(* The read operations among reports on a working medium: the nearby       *)
(* query, the crime query and the complete analysis, which passes the      *)
(* crime signal of the location on to the score calculator.                *)
(***************************************************************************)
MaxReadReports == 2

\* complete_safety_analysis up to its call of calculate_safety_score: the
\* weather lookup has answered, no image came with the request
SafetyAnalysisCrime(latitude, longitude, safety_impact) ==
    /\ NoResponsePending
    /\ score_pc # "call"
    /\ Len(score_log) < MaxCalls
    /\ crime_result' =
           [status    |-> "returned",
            latitude  |-> latitude,
            longitude |-> longitude,
            radius_km |-> 1,
            at        |-> now,
            store     |-> file,
            result    |-> get_crime_data(load_incidents(file), latitude,
                                         longitude, 1, now)]
    /\ read_obs' = Observation
    /\ call_image' = NoImage
    /\ call_weather' = [safety_impact |-> safety_impact]
    /\ call_crime' = crime_result'.result
    /\ score_pc' = "call"
    /\ UNCHANGED <<score_result, score_log>>
    /\ UNCHANGED <<file, now, pc, incidents, ret, before, started, acked,
                   ever_stored, committed, near_result>>
    /\ UNCHANGED auth_vars

ReadNext ==
    \/ /\ UNCHANGED <<score_vars, auth_vars>>
       /\ score_pc # "call"
       /\ \/ /\ started < MaxReadReports
             /\ \E latitude \in Latitudes, longitude \in Longitudes,
                   incident_type \in IncidentTypes,
                   description \in Descriptions :
                    ReportIncident(FirstProc, latitude, longitude,
                                   incident_type, description)
          \/ Queries
          \/ Respond
    \/ \E latitude \in Latitudes, longitude \in Longitudes :
           SafetyAnalysisCrime(latitude, longitude, "neutral")
    \/ CalculateSafetyScore

SpecRead == CrimeInit /\ [][ReadNext]_vars

(***************************************************************************)
(* Reports of one place, one after the other on a medium whose writes can  *)
(* fail, while the days pass and the crime signal of the place is asked.   *)
(***************************************************************************)
MaxExpiryReports == 7

ExpiryNext ==
    /\ UNCHANGED <<score_vars, auth_vars>>
    /\ \/ /\ AllIdle
          /\ started < MaxExpiryReports
          /\ \E incident_type \in IncidentTypes, description \in Descriptions :
                 RI_Load(FirstProc, 0, 0, incident_type, description)
       \/ RI_Open(FirstProc)
       \/ RI_OpenFails(FirstProc)
       \/ RI_Dump(FirstProc)
       \/ RI_DumpFails(FirstProc)
       \/ Tick
       \/ AllIdle /\ GetCrimeData(0, 0, 1)
       \/ Respond

SpecExpiry == CrimeInit /\ [][ExpiryNext]_vars

(***************************************************************************)
(* Signups one after the other, with the number in each of its spellings,  *)
(* on a medium whose writes can fail.                                      *)
(***************************************************************************)
MaxUsers == 3

LocalNumber == <<"2", "2", "3", "4", "5", "6", "7", "8">>

PhoneNumbers ==
    {<<>>,
     LocalNumber,
     <<"+", "2", "1", "6">> \o LocalNumber,
     <<"0", "0", "2", "1", "6">> \o LocalNumber,
     <<"2", "1", "6">> \o LocalNumber,
     <<"2", "2", " ", "3", "4", "5", "-", "6", "7", "8">>,
     <<"0">> \o LocalNumber,
     <<"1", "2", "3", "4", "5", "6", "7", "8">>,
     <<"5", "5", "5", "5", "5", "5", "5", "5">>,
     <<"2", "1", "6", "2", "1", "6", "1", "2", "3", "4", "5">>,
     <<"2", "1", "6", "1", "2", "3", "4", "5">>}

FullNames == {<<>>, <<" ", "A", "l">>, <<" ", "A", " ">>}

Passwords == {<<>>, <<"1", "2", "3", "4", "5">>,
              <<"s", "e", "c", "r", "e", "t">>}

\* signup_user from its first line to its return
SignupUser(phone_number, full_name, password) ==
    /\ Len(load_users(users_file)) < MaxUsers
    /\ \E salt \in Salts :
           LET out == signup_user(users_file, phone_number, full_name,
                                  password, salt, now)
           IN  /\ users_file' =
                      IF out.saved THEN FileJson(out.users) ELSE users_file
               /\ signup_ret' = [status       |-> "returned",
                                 phone_number |-> phone_number,
                                 full_name    |-> full_name,
                                 password     |-> password,
                                 result       |-> out.result]

\* json.dump of save_users raises part way: users.json, opened with 'w',
\* keeps a prefix of the text and the exception leaves signup_user
SignupUserDumpFails(phone_number, full_name, password) ==
    /\ Len(load_users(users_file)) < MaxUsers
    /\ \E salt \in Salts :
           signup_user(users_file, phone_number, full_name, password, salt,
                       now).saved
    /\ users_file' = FileGarbage
    /\ signup_ret' = [status       |-> "raised",
                      phone_number |-> phone_number,
                      full_name    |-> full_name,
                      password     |-> password]

SignupNext ==
    /\ UNCHANGED <<score_vars, store_vars>>
    /\ \E phone_number \in PhoneNumbers, full_name \in FullNames,
          password \in Passwords :
           \/ SignupUser(phone_number, full_name, password)
           \/ SignupUserDumpFails(phone_number, full_name, password)

SpecSignup == CrimeInit /\ [][SignupNext]_vars

(***************************************************************************)
(* Queries over an incident file that holds records without a coordinate   *)
(* or without a timestamp, next to records report_incident wrote.          *)
(***************************************************************************)
MaxMalformedLen == 2

Without(record, key) == [k \in DOMAIN record \ {key} |-> record[k]]

\* the records report_incident writes as the i-th of the file
WrittenRecords(i) ==
    {[new_incident(<<>>, latitude, longitude, incident_type, description, 0)
         EXCEPT !.id = i] :
        latitude \in {l \in Latitudes : valid_point(l)},
        longitude \in Longitudes, incident_type \in IncidentTypes,
        description \in Descriptions}

StoredRecords(i) ==
    WrittenRecords(i)
        \cup {Without(record, key) :
                  record \in WrittenRecords(i),
                  key \in {"latitude", "longitude", "reported_at"}}

MalformedStores ==
    UNION {{list \in [1..n -> UNION {StoredRecords(i) : i \in 1..n}] :
                \A i \in 1..n : list[i] \in StoredRecords(i)} :
           n \in 1..MaxMalformedLen}

MalformedInit ==
    /\ ScoreIdle
    /\ AuthInit
    /\ \E list \in MalformedStores :
           /\ file = FileJson(list)
           /\ committed = list
           /\ ever_stored = Range(list)
    /\ now = 0
    /\ pc = [p \in Procs |-> "idle"]
    /\ incidents = [p \in Procs |-> <<>>]
    /\ ret = [p \in Procs |-> NoReturn]
    /\ before = [p \in Procs |-> {}]
    /\ started = 0
    /\ acked = <<>>
    /\ read_obs = NoQuery
    /\ near_result = NoQuery
    /\ crime_result = NoQuery

MalformedNext ==
    /\ UNCHANGED <<score_vars, auth_vars>>
    /\ \/ Tick
       \/ Queries
       \/ Respond

SpecMalformed == MalformedInit /\ [][MalformedNext]_vars


(***************************************************************************)
(* Properties.                                                             *)
(***************************************************************************)
Done == score_pc = "done"

\* C1: for every input the returned safety_score is an integer in [1, 100],
\* never 0.
C1_ScoreInRange == Done => score_result.safety_score \in 1..100

\* a crime_rate beyond 100 drives the blend below 1 and the result is 1
C1_Witness ==
    /\ Done
    /\ call_crime.crime_rate > 100
    /\ score_result.safety_score = 1

\* the blend of the claim in exact arithmetic, a fraction n / d
BlendExact(r, keep, weight, factor) ==
    [n |-> keep * r.n + weight * factor * r.d, d |-> 100 * r.d]

TruncDiv(n, d) == IF n >= 0 THEN n \div d ELSE -((-n) \div d)

ClaimedWeatherScore ==
    IF call_weather.safety_impact = "negative" THEN 30
    ELSE IF call_weather.safety_impact = "positive" THEN 70
    ELSE 50

ClaimedScore ==
    LET start   == [n |-> 50, d |-> 1]
        image   == IF has_image_analysis(call_image)
                   THEN BlendExact(start, 60, 40,
                                   img_score(call_image["indicators"]))
                   ELSE start
        weather == BlendExact(image, 75, 25, ClaimedWeatherScore)
        crime   == BlendExact(weather, 60, 40, 100 - call_crime.crime_rate)
    IN  Max(1, Min(100, TruncDiv(crime.n, crime.d)))

\* C2: safety_score equals the sequential blend (start 50; image 0.6/0.4 if
\* indicators are present; weather 0.75/0.25 with 30/50/70; crime 0.6/0.4 of
\* 100 - crime_rate) truncated to an integer and clamped to [1, 100]; no
\* image, neutral weather and crime_rate 35 give 56, moderate, no alert.
C2_SequentialBlend ==
    Done =>
        /\ score_result.safety_score = ClaimedScore
        /\ (/\ call_image = NoImage
            /\ call_weather.safety_impact = "neutral"
            /\ call_crime.crime_rate = 35)
           => /\ score_result.safety_score = 56
              /\ score_result.safety_level = "moderate"
              /\ score_result.alert = FALSE

\* C5: safety_level follows the ladder >= 80 very_safe, >= 60 safe, >= 40
\* moderate, >= 20 caution, otherwise unsafe, and alert is true exactly when
\* the level is caution or unsafe, that is exactly when safety_score < 40.
C5_LevelLadder ==
    Done =>
        LET points == score_result.safety_score
            level  == score_result.safety_level
        IN  /\ level \in Levels
            /\ (level = "very_safe") <=> (points >= 80)
            /\ (level = "safe") <=> (points >= 60 /\ points < 80)
            /\ (level = "moderate") <=> (points >= 40 /\ points < 60)
            /\ (level = "caution") <=> (points >= 20 /\ points < 40)
            /\ (level = "unsafe") <=> (points < 20)
            /\ score_result.alert <=> (level \in {"caution", "unsafe"})
            /\ score_result.alert <=> (points < 40)

\* a score between 20 and 39: caution, with the alert
C5_Witness ==
    /\ Done
    /\ score_result.safety_score \in 20..39
    /\ score_result.safety_level = "caution"
    /\ score_result.alert

Returned == crime_result.status = "returned"

Computed == Returned /\ "error" \notin DOMAIN crime_result.result

\* the records of the store of the query that lie inside its radius
InsideRadius ==
    LET list == crime_result.store.data
    IN  {i \in 1..Len(list) :
            within_radius(crime_result.latitude, crime_result.longitude,
                          list[i].latitude, list[i].longitude,
                          crime_result.radius_km)}

\* ... and were reported less than thirty days before the query
RecentInside ==
    {i \in InsideRadius :
        crime_result.at - crime_result.store.data[i].reported_at[2] < 30}

\* C3: the aggregate returns crime_rate = min(100, 10 + 15*T + 10*R) with T
\* the stored incidents within radius_km of the point and R those of them
\* reported within the last 30 days; T = 0 gives 10 and very_safe, and one
\* incident reported today inside the radius gives T = 1, R = 1, 35, safe.
C3_CrimeRateFormula ==
    Computed =>
        LET total  == Cardinality(InsideRadius)
            recent == Cardinality(RecentInside)
            signal == crime_result.result
        IN  /\ signal.total_incidents = total
            /\ signal.recent_incidents = recent
            /\ signal.crime_rate =
                   (IF 10 + 15 * total + 10 * recent > 100 THEN 100
                    ELSE 10 + 15 * total + 10 * recent)
            /\ total = 0 =>
                   signal.crime_rate = 10 /\ signal.safety_level = "very_safe"
            /\ (total = 1 /\ recent = 1) =>
                   signal.crime_rate = 35 /\ signal.safety_level = "safe"

\* one incident reported today inside the radius
C3_Witness ==
    /\ Computed
    /\ Cardinality(InsideRadius) = 1
    /\ Cardinality(RecentInside) = 1
    /\ Len(crime_result.store.data) > 1
    /\ crime_result.result.crime_rate = 35

\* C4: the CrimeSignal get_crime_data returns, computed or fallback, has
\* crime_rate within [0, 100].
C4_CrimeRateInRange == Returned => crime_result.result.crime_rate \in 0..100

\* four recent incidents inside the radius: 110 points before the cap
C4_Witness ==
    /\ Computed
    /\ crime_result.result.total_incidents = 4
    /\ crime_result.result.recent_incidents = 4
    /\ crime_result.result.crime_rate = 100

Stored == load_incidents(file)

\* C6: when report_incident calls run concurrently no update is lost: once
\* all have completed the store holds one record for every call that
\* returned success.
C6_NoLostUpdate ==
    AllIdle =>
        /\ Len(Stored) = Len(acked)
        /\ Range(acked) \subseteq Range(Stored)

\* C7: after any sequence of report_incident calls the stored incidents
\* have pairwise distinct ids and each newly assigned id is strictly greater
\* than every id assigned before it.
C7_IdsUniqueIncreasing ==
    /\ \A i, j \in 1..Len(Stored) : i # j => Stored[i].id # Stored[j].id
    /\ \A i, j \in 1..Len(acked) : i < j => acked[i].id < acked[j].id

\* C8: every incident record that was once stored remains in the store with
\* all of its fields unchanged; the store only grows.
C8_StoreOnlyGrows == AllIdle => ever_stored \subseteq Range(Stored)

\* C9: if a report_incident call fails while writing the durable medium,
\* every record that was in the store before the call is still in the store
\* afterwards.
C9_FailedAppendKeepsRecords ==
    \A p \in Procs :
        (pc[p] = "idle" /\ ret[p].status = "failed")
            => before[p] \subseteq Range(Stored)

\* C10: a load_incidents that runs while a report_incident is in flight
\* observes a committed record set, the one before the append or the one
\* after it, never a partial or empty one.
C10_ReadCommitted ==
    read_obs.status = "read" => read_obs.seen \in read_obs.allowed

\* the level the thresholds of the specification give a crime_rate
ThresholdLevel(crime_rate) ==
    IF crime_rate < 30 THEN "very_safe"
    ELSE IF crime_rate < 50 THEN "safe"
    ELSE IF crime_rate < 70 THEN "moderate"
    ELSE IF crime_rate < 85 THEN "caution"
    ELSE "unsafe"

Fallback == Returned /\ "error" \in DOMAIN crime_result.result

\* C11 as stated: in every CrimeSignal get_crime_data returns, on any path,
\* safety_level is the level the thresholds <30 very_safe, <50 safe, <70
\* moderate, <85 caution, otherwise unsafe give its crime_rate.
C11_LevelFromThresholdsAnyPath ==
    Returned =>
        crime_result.result.safety_level
            = ThresholdLevel(crime_result.result.crime_rate)

\* C11 amended: in every CrimeSignal the aggregate computes, safety_level is
\* the level the thresholds give its crime_rate; the fallback signal that
\* get_crime_data substitutes on an exception is crime_rate 20 with
\* safety_level safe.
C11_LevelFromThresholds ==
    /\ Computed =>
           crime_result.result.safety_level
               = ThresholdLevel(crime_result.result.crime_rate)
    /\ Fallback =>
           /\ crime_result.result.crime_rate = 20
           /\ crime_result.result.safety_level = "safe"

\* two incidents inside the radius, one of them recent: crime_rate 50 is
\* on a threshold and the level is moderate
C11_Witness ==
    /\ Computed
    /\ crime_result.result.crime_rate = 50
    /\ crime_result.result.safety_level = "moderate"

\* the aggregate of the store, point and time of the query at another radius
AggregateAt(radius_km) ==
    calculate_crime_score_from_incidents(
        load_incidents(crime_result.store), crime_result.latitude,
        crime_result.longitude, radius_km, crime_result.at).value

\* C12: for a fixed store, point and time and all radii r1 < r2,
\* total_incidents of the aggregate at r1 is at most total_incidents of the
\* aggregate at r2.
C12_RadiusMonotone ==
    Computed =>
        \A radius_km \in Radii :
            LET here  == crime_result.result.total_incidents
                there == AggregateAt(radius_km).total_incidents
            IN  /\ crime_result.radius_km < radius_km => here <= there
                /\ radius_km < crime_result.radius_km => there <= here

\* one incident within 1 km of the point and a second one 222 km away
C12_Witness ==
    /\ Computed
    /\ crime_result.radius_km = 1
    /\ crime_result.result.total_incidents = 1
    /\ AggregateAt(222).total_incidents = 2

\* the crime_rate of the query after one more record is in the store
RateWith(latitude, longitude, reported) ==
    LET list   == load_incidents(crime_result.store)
        record == new_incident(list, latitude, longitude, "theft", "", reported)
    IN  calculate_crime_score_from_incidents(
            Append(list, record), crime_result.latitude,
            crime_result.longitude, crime_result.radius_km,
            crime_result.at).value.crime_rate

\* C13: for a fixed query and time, appending one more incident inside the
\* radius never decreases crime_rate, and appending a recent incident gives
\* a crime_rate no lower than appending an equally placed incident older
\* than 30 days.
C13_AppendMonotone ==
    Computed =>
        \A latitude \in Latitudes, longitude \in Longitudes :
            (/\ valid_point(latitude)
             /\ KmPerDegree * KmPerDegree
                    * ((latitude - crime_result.latitude)
                           * (latitude - crime_result.latitude)
                       + (longitude - crime_result.longitude)
                           * (longitude - crime_result.longitude))
                  <= crime_result.radius_km * crime_result.radius_km
             /\ crime_result.radius_km >= 0)
            => LET recent == RateWith(latitude, longitude, crime_result.at)
                   old    == RateWith(latitude, longitude,
                                      crime_result.at - 31)
               IN  /\ recent >= crime_result.result.crime_rate
                   /\ old >= crime_result.result.crime_rate
                   /\ recent >= old

\* a store of one recent incident at the point: 35 now, 60 with one more
\* recent incident there and 50 with an old one
C13_Witness ==
    /\ Computed
    /\ crime_result.result.crime_rate = 35
    /\ RateWith(crime_result.latitude, crime_result.longitude,
                crime_result.at) = 60
    /\ RateWith(crime_result.latitude, crime_result.longitude,
                crime_result.at - 31) = 50

\* a hazard-indicator record came with the call
Supplied ==
    /\ "indicators" \in DOMAIN call_image
    /\ DOMAIN call_image["indicators"] # {}

\* ... and the analysis that produced it reported no error
Analysed == Supplied /\ "error" \notin DOMAIN call_image

\* the score of the call when the blend starts from the given running score
ScoreFrom(score) ==
    Max(1, Min(100, DInt(crime_blend(weather_blend(score, call_weather),
                                     call_crime))))

BlendSkipped ==
    /\ score_result.breakdown.image_analysis = <<>>
    /\ score_result.safety_score = ScoreFrom(DFromInt(50))

BlendApplied ==
    /\ Len(score_result.breakdown.image_analysis) = 1
    /\ score_result.breakdown.image_analysis[1] \in 5..100
    /\ score_result.safety_score =
           ScoreFrom(DAdd(DMul(DFromInt(50), F06),
                          DMul(DFromInt(score_result.breakdown.image_analysis[1]),
                               F04)))

\* C14 as stated: breakdown.image_analysis is null and the image blend is
\* skipped when no hazard-indicator record is supplied; when a record is
\* supplied, even one with severity none and all flags false,
\* breakdown.image_analysis is a number within [5, 100] and the blend is
\* applied.
C14_ImageFactorWhenSupplied ==
    Done =>
        /\ ~Supplied => BlendSkipped
        /\ Supplied => BlendApplied

\* C14 amended: breakdown.image_analysis is null and the blend is skipped
\* when no hazard-indicator record is supplied or the analysis that came
\* with it reports an error; when a record is supplied without an error,
\* even one with severity none and all flags false, breakdown.image_analysis
\* is a number within [5, 100] and the blend is applied.
C14_ImageFactorWhenAnalysed ==
    Done =>
        /\ ~Analysed => BlendSkipped
        /\ Analysed => BlendApplied

\* severity none, no hazard flag, good lighting and cleanliness, people
\* present: the factor is 70 and lifts the score of the call above the
\* score without an image
C14_Witness ==
    /\ Done
    /\ call_image =
           [indicators |-> [road_hazards    |-> NoHazards,
                            hazard_severity |-> "none",
                            travel_safe     |-> TRUE,
                            lighting        |-> "good",
                            people_present  |-> TRUE,
                            cleanliness     |-> "good"]]
    /\ score_result.breakdown.image_analysis = <<70>>
    /\ score_result.safety_score > ScoreFrom(DFromInt(50))

\* imageScore as the specification words it
ClaimedSeverityPenalty(indicators) ==
    CASE indicators.hazard_severity = "critical" -> 40
      [] indicators.hazard_severity = "high"     -> 30
      [] indicators.hazard_severity = "moderate" -> 20
      [] indicators.hazard_severity = "low"      -> 12
      [] indicators.hazard_severity = "none"     ->
             8 * Cardinality({k \in DOMAIN indicators.road_hazards :
                                  indicators.road_hazards[k]})

ClaimedTravelPenalty(indicators) ==
    IF ~indicators.travel_safe /\ indicators.hazard_severity \in {"none", "low"}
    THEN 15 ELSE 0

ClaimedGrade(grade, good, moderate, poor) ==
    CASE grade = "good" -> good [] grade = "moderate" -> moderate
      [] grade = "poor" -> poor

ClaimedImageScore(indicators) ==
    LET raw == 50 - ClaimedSeverityPenalty(indicators)
                  - ClaimedTravelPenalty(indicators)
                  + ClaimedGrade(indicators.lighting, 10, 3, -3)
                  + (IF indicators.people_present THEN 5 ELSE 0)
                  + ClaimedGrade(indicators.cleanliness, 5, 2, -2)
    IN  IF raw < 5 THEN 5 ELSE IF raw > 100 THEN 100 ELSE raw

\* C15: for every hazard-indicator record imageScore = clamp(50 -
\* severityPenalty - travelPenalty + lighting + people + cleanliness, 5, 100)
\* with severityPenalty 40/30/20/12 for critical/high/moderate/low and 8 per
\* true road-hazard flag for none, travelPenalty 15 only when travel_safe is
\* false and severity is none or low, lighting +10/+3/-3, people +5/0,
\* cleanliness +5/+2/-2; critical, travel_safe false, poor lighting, no
\* people, poor cleanliness gives 5.
C15_ImageScoreFormula ==
    (Done /\ Analysed) =>
        LET indicators == call_image["indicators"]
        IN  /\ score_result.breakdown.image_analysis
                   = <<ClaimedImageScore(indicators)>>
            /\ (/\ indicators.hazard_severity = "critical"
                /\ ~indicators.travel_safe
                /\ indicators.lighting = "poor"
                /\ ~indicators.people_present
                /\ indicators.cleanliness = "poor")
               => score_result.breakdown.image_analysis = <<5>>

\* severity high with travel_safe false: 30 off for the severity and
\* nothing for travel_safe, so 50 - 30 + 3 + 2 = 25
C15_Witness ==
    /\ Done
    /\ Analysed
    /\ call_image["indicators"].hazard_severity = "high"
    /\ ~call_image["indicators"].travel_safe
    /\ call_image["indicators"].road_hazards # NoHazards
    /\ call_image["indicators"].lighting = "moderate"
    /\ call_image["indicators"].cleanliness = "moderate"
    /\ ~call_image["indicators"].people_present
    /\ score_result.breakdown.image_analysis = <<25>>

\* the incident file exists and json.load cannot read it
Unreadable(f) == f.kind \in {"garbage", "empty"}

\* C16: if the incident store cannot be read when get_crime_data is called,
\* get_crime_data does not propagate the failure and returns the neutral
\* fallback signal crime_rate = 20, safety_level = safe.
C16_FallbackOnUnreadableStore ==
    (Returned /\ Unreadable(crime_result.store)) =>
        /\ crime_result.result.crime_rate = 20
        /\ crime_result.result.safety_level = "safe"

\* C17: when the durable incident collection is unreadable or unwritable,
\* report_incident and get_incidents_near_location surface a storage
\* failure to their caller: a query over an unreadable file does not return
\* a result list, and a report served alone does not go on to its save
\* past the load of an unreadable file.
C17_StorageFailureSurfaced ==
    /\ (near_result.status = "returned" /\ Unreadable(file))
           => near_result.result.raised
    /\ \A p \in Procs : pc[p] = "save" => ~Unreadable(file)

\* the records of the store of the query that have their coordinates and
\* their timestamp
WellFormed ==
    LET list == crime_result.store.data
    IN  {i \in 1..Len(list) :
            {"latitude", "longitude", "reported_at"} \subseteq DOMAIN list[i]}

WellFormedInside ==
    LET list == crime_result.store.data
    IN  {i \in WellFormed :
            /\ crime_result.radius_km >= 0
            /\ KmPerDegree * KmPerDegree
                   * ((list[i].latitude - crime_result.latitude)
                          * (list[i].latitude - crime_result.latitude)
                      + (list[i].longitude - crime_result.longitude)
                          * (list[i].longitude - crime_result.longitude))
                 <= crime_result.radius_km * crime_result.radius_km}

WellFormedRecent ==
    {i \in WellFormedInside :
        crime_result.at - crime_result.store.data[i].reported_at[2] < 30}

\* C18: if the store contains a record missing latitude, longitude or
\* reported_at, aggregation skips that record and still returns the
\* CrimeSignal computed from the remaining well-formed records; the
\* malformed record does not abort the query.
C18_MalformedRecordsSkipped ==
    (/\ Returned
     /\ crime_result.latitude \in -90..90
     /\ WellFormed # 1..Len(crime_result.store.data))
    => LET total  == Cardinality(WellFormedInside)
           recent == Cardinality(WellFormedRecent)
           signal == crime_result.result
       IN  /\ "error" \notin DOMAIN signal
           /\ signal.total_incidents = total
           /\ signal.recent_incidents = recent
           /\ signal.crime_rate =
                  (IF 10 + 15 * total + 10 * recent > 100 THEN 100
                   ELSE 10 + 15 * total + 10 * recent)

ValidReport(record) ==
    /\ record.latitude \in -90..90
    /\ record.longitude \in -180..180
    /\ record.incident_type # ""

\* C19: a report with out-of-range latitude or longitude or an empty
\* incident_type, and a query with a negative radius, are rejected before
\* reaching the store or aggregator: no such report is confirmed or stored,
\* and no such query is answered with an aggregate or a result list.
C19_InvalidInputRejected ==
    /\ \A i \in 1..Len(acked) : ValidReport(acked[i])
    /\ \A i \in 1..Len(Stored) : ValidReport(Stored[i])
    /\ ~(Computed /\ crime_result.radius_km < 0)
    /\ ~(/\ near_result.status = "returned"
         /\ near_result.radius_km < 0
         /\ ~near_result.result.raised)

\* the signal get_crime_data returns for a query at the origin over the
\* given incident file
SignalOver(f) == get_crime_data(load_incidents(f), 0, 0, 1, 0)

\* C20: no absorbed error yields a result indistinguishable in the breakdown
\* from an error-free one: the breakdown for a failed image analysis differs
\* from the breakdown for no image supplied, and the breakdown computed from
\* the crime signal of an unreadable store differs from the breakdown
\* computed from the genuine signal with the same crime_rate, that of a
\* store with no incidents.
C20_ErrorsDistinguishable ==
    Done =>
        /\ "error" \in DOMAIN call_image =>
               score_result.breakdown
                   # calculate_safety_score(NoImage, call_weather,
                                            call_crime).breakdown
        /\ calculate_safety_score(call_image, call_weather,
                                  SignalOver(FileGarbage)).breakdown
               # calculate_safety_score(call_image, call_weather,
                                        SignalOver(FileMissing)).breakdown

SameInputs(a, b) ==
    /\ a.image_analysis = b.image_analysis
    /\ a.weather_data = b.weather_data
    /\ a.crime_data = b.crime_data

C22_BreakdownPreBlend ==
    Done =>
        /\ score_result.breakdown.weather =
               (CASE call_weather.safety_impact = "negative" -> 30
                  [] call_weather.safety_impact = "neutral"  -> 50
                  [] call_weather.safety_impact = "positive" -> 70)
        /\ score_result.breakdown.crime_data = 100 - call_crime.crime_rate

\* a scored image, negative weather and crime_rate 35: the factors are 30
\* and 65 while the running score ends elsewhere
C22_Witness ==
    /\ Done
    /\ Analysed
    /\ call_weather.safety_impact = "negative"
    /\ call_crime.crime_rate = 35
    /\ score_result.breakdown.weather = 30
    /\ score_result.breakdown.crime_data = 65
    /\ score_result.safety_score \notin {30, 65}

\* C24: for inputs in the specified domains (crime_rate in [0, 100], the
\* three weather impacts, hazard indicators absent or drawn from the
\* enumerated values) safety_score lies in [18, 76]; so very_safe is never
\* returned, and unsafe is returned only when an image is supplied.
C24_ScoreWithinDomainRange ==
    Done =>
        /\ score_result.safety_score \in 18..76
        /\ score_result.safety_level # "very_safe"
        /\ score_result.safety_level = "unsafe" => Supplied

\* the lowest score: image factor 5, negative weather, crime_rate 100
C24_Witness ==
    /\ Done
    /\ Supplied
    /\ call_crime.crime_rate = 100
    /\ score_result.safety_score = 18
    /\ score_result.safety_level = "unsafe"

\* the result of the call had crime_rate been the given one
WithCrimeRate(crime_rate) ==
    calculate_safety_score(call_image, call_weather, [crime_rate |-> crime_rate])

\* C28: calculate_safety_score is monotone in crime_rate: for fixed image
\* and weather inputs and crime rates c1 <= c2 in [0, 100] the safety_score
\* for c2 is <= the safety_score for c1, and alert for c1 implies alert for
\* c2.  Stated for c2 = c1 + 1 at every c1 of 0..99, which gives every pair
\* c1 <= c2 by transitivity.
C28_MonotoneInCrimeRate ==
    (Done /\ call_crime.crime_rate < 100) =>
        LET higher == WithCrimeRate(call_crime.crime_rate + 1)
        IN  /\ higher.safety_score <= score_result.safety_score
            /\ score_result.alert => higher.alert

\* no image, neutral weather: crime_rate 75 scores 40 without an alert and
\* crime_rate 76 scores 39 with one
C28_Witness ==
    /\ Done
    /\ call_image = NoImage
    /\ call_weather.safety_impact = "neutral"
    /\ call_crime.crime_rate = 75
    /\ score_result.safety_score = 40
    /\ ~score_result.alert
    /\ WithCrimeRate(76).safety_score = 39
    /\ WithCrimeRate(76).alert

\* crime rates the dominance of the crime factor is measured at: both ends of
\* the domain, its middle, and two rates whose crime part 0.4 * (100 - rate)
\* carries a fraction
DominanceCrimeRates == {0, 33, 50, 76, 100}

DominanceInit ==
    /\ call_image \in FusedImages
    /\ call_weather \in [safety_impact : WeatherImpacts]
    /\ call_crime \in [crime_rate : DominanceCrimeRates]
    /\ score_pc = "call"
    /\ score_result = NoResult
    /\ score_log = <<>>
    /\ StoreInit
    /\ AuthInit

SpecDominance == DominanceInit /\ [][ScoreNext]_vars

\* the safety_scores of all image and weather inputs at each of these rates
DominanceScores ==
    {<<c, {calculate_safety_score(i, w, [crime_rate |-> c]).safety_score :
              i \in FusedImages, w \in [safety_impact : WeatherImpacts]}>> :
        c \in DominanceCrimeRates}

ScoresAt(crime_rate) ==
    (CHOOSE p \in DominanceScores : p[1] = crime_rate)[2]

\* what crime_rate 0 in place of 100 adds to the score, for given image and
\* weather inputs
CrimeSwing(i, w) ==
    calculate_safety_score(i, w, [crime_rate |-> 0]).safety_score
        - calculate_safety_score(i, w, [crime_rate |-> 100]).safety_score

LeastCrimeSwing ==
    LET swings == {CrimeSwing(i, w) :
                      i \in FusedImages, w \in [safety_impact : WeatherImpacts]}
    IN  CHOOSE least \in swings : \A other \in swings : least <= other

\* C23: the crime factor dominates the fused score: for any fixed image and
\* weather inputs the difference in safety_score between crime_rate 0 and
\* crime_rate 100 is larger than the largest difference in safety_score
\* obtainable at any fixed crime_rate by varying the image and the weather
\* input over all their values.
C23_CrimeDominates ==
    Done =>
        /\ CrimeSwing(call_image, call_weather) >= LeastCrimeSwing
        /\ \A other \in ScoresAt(call_crime.crime_rate) :
               /\ score_result.safety_score - other < LeastCrimeSwing
               /\ other - score_result.safety_score < LeastCrimeSwing

\* the lowest score at crime_rate 0, 58, lies 18 below the highest one, 76,
\* and crime_rate 100 takes 40 off it
C23_Witness ==
    /\ Done
    /\ call_crime.crime_rate = 0
    /\ score_result.safety_score = 58
    /\ 76 \in ScoresAt(0)
    /\ CrimeSwing(call_image, call_weather) = 40

\* a read operation returns in this step: the nearby query, the crime query
\* (alone or for the complete analysis) or the score calculator
ReadReturns ==
    \/ near_result.status = "none" /\ near_result'.status = "returned"
    \/ crime_result.status = "none" /\ crime_result'.status = "returned"
    \/ Len(score_log') > Len(score_log)

\* C25: the read operations get_incidents_near_location,
\* calculate_crime_score_from_incidents, get_crime_data and
\* calculate_safety_score leave the incident store unchanged; distance_km
\* is added to the returned copies only, and no stored record ever has a
\* distance_km field.
C25_ReadsLeaveStore ==
    [][/\ ReadReturns => file' = file
       /\ \A i \in 1..Len(file'.data) : "distance_km" \notin DOMAIN file'.data[i]]_vars

\* a nearby query has returned a record with its distance while the stored
\* record has none
C25_Witness ==
    /\ near_result.status = "returned"
    /\ ~near_result.result.raised
    /\ near_result.result.value # <<>>
    /\ "distance_km" \in DOMAIN near_result.result.value[1]
    /\ file.kind = "json"
    /\ "distance_km" \notin DOMAIN file.data[1]
    /\ score_pc = "done"
    /\ Len(score_log) > 0

\* six or more incidents have lain within 1 km of latitude 0, longitude 0:
\* report_incident numbers a record Len(incidents) + 1, so the store that
\* held a record of this place numbered 6 or more held six incidents of it
OnceSixInside ==
    \E incident \in ever_stored :
        /\ incident.id >= 6
        /\ within_radius(0, 0, incident.latitude, incident.longitude, 1)
        /\ \A other \in ever_stored :
               within_radius(0, 0, other.latitude, other.longitude, 1)

\* a crime query of that place has returned something else than the
\* saturated signal
BelowSaturation ==
    /\ crime_result.status = "returned"
    /\ crime_result.latitude = 0
    /\ crime_result.longitude = 0
    /\ crime_result.radius_km = 1
    /\ \/ crime_result.result.crime_rate # 100
       \/ crime_result.result.safety_level # "unsafe"

\* C26: incidents never expire: once six or more incidents lie inside the
\* radius of a query, the aggregate returns crime_rate 100 and safety_level
\* unsafe for that query at every later time and after any further reports.
C26_IncidentsNeverExpire == OnceSixInside => ~BelowSaturation

\* the signup_user call of this step was rejected
SignupRejected ==
    /\ signup_ret'.status = "returned"
    /\ ~signup_ret'.result.success

\* C27: after any sequence of signup_user calls no two stored users have
\* the same normalized phone number; a signup that is rejected (missing
\* field, invalid phone, short password or name, phone already registered)
\* leaves the user store unchanged and issues no token.
C27_UniquePhoneNumbers ==
    [][/\ LET users == load_users(users_file')
          IN  \A i, j \in 1..Len(users) :
                  normalize_phone_number(users[i].phone_number)
                      = normalize_phone_number(users[j].phone_number)
                  => i = j
       /\ SignupRejected =>
              /\ users_file' = users_file
              /\ "access_token" \notin DOMAIN signup_ret'.result]_vars

\* with +21622345678 and another number stored, the signup of
\* 0021622345678 has been rejected as already registered
C27_Witness ==
    /\ Len(load_users(users_file)) = 2
    /\ \E i \in 1..2 :
           load_users(users_file)[i].phone_number
               = <<"+", "2", "1", "6">> \o LocalNumber
    /\ signup_ret.status = "returned"
    /\ signup_ret.phone_number = <<"0", "0", "2", "1", "6">> \o LocalNumber
    /\ ~signup_ret.result.success
    /\ signup_ret.result.error = "Phone number already registered"

====
